---------------------------- MODULE Spec2Model ----------------------------
(***************************************************************************)
(* A model of the cross-make CAN translator: the translation table         *)
(* (translation_table.py), the fuzzing strategies (fuzzing.py), the        *)
(* in-memory endpoints (can_interface.py) and the translator runtime       *)
(* (translator_core.py): producer threads calling start(), stop() and      *)
(* add_translation_entry(), and the worker threads running _run().         *)
(*                                                                         *)
(* Python's None is the empty sequence <<>> and a present value x is <<x>>.*)
(* A payload is a sequence of bytes (0..255).  scale and offset of a       *)
(* signal mapping are floats that hold integers >= 0.                      *)
(***************************************************************************)
EXTENDS Integers, Sequences, FiniteSets, TLC

(***************************************************************************)
(* Bounds of the model.                                                    *)
(***************************************************************************)
\* frames the environment puts on the source endpoint in one run
MaxFrames == 2
\* worker threads one translator spawns in one run
MaxSpawns == 2
\* frames on the source endpoint in a run with several calling threads
MaxRaceFrames == 1
\* add operations in one run of the table specification
MaxAdds == 3
\* callbacks registered for one event
MaxListeners == 3
\* signal mappings of one entry in the apply specification
MaxSignals == 2
\* handle_unknown calls on one fuzzer in the fuzzer specification
MaxCalls == 3
\* elements of the entries array of a document the loader reads
MaxEntries == 2
\* receive calls on the in-memory endpoint in one run
MaxReceives == 2
\* frames delivered to the in-memory endpoint in one run
MaxDelivered == 2

None == << >>
Some(x) == << x >>

Min(a, b) == IF a < b THEN a ELSE b

(***************************************************************************)
(* CanMessage (can_interface.py).                                          *)
(***************************************************************************)
CanMessage(id, data, ts, ext) ==
    [arbitration_id |-> id, data |-> data, timestamp |-> ts, is_extended_id |-> ext]

(***************************************************************************)
(* SignalMapping and TranslationEntry (translation_table.py).              *)
(***************************************************************************)
SignalMapping(src, len, dest, scale, offset, endian) ==
    [src_start_bit |-> src, length |-> len, dest_start_bit |-> dest,
     scale |-> scale, offset |-> offset, endian |-> endian,
     min_value |-> None, max_value |-> None]

TranslationEntry(sid, tid, signals, default, sext, text) ==
    [source_id |-> sid, target_id |-> tid, signals |-> signals,
     default_payload |-> default, source_is_extended |-> sext,
     target_is_extended |-> text]

\* the sequence in the opposite order
Reverse(l) == [i \in 1 .. Len(l) |-> l[Len(l) + 1 - i]]

(***************************************************************************)
(* Python's int has no width and a payload holds up to 64 bits, so an int  *)
(* n >= 0 is the sequence of its binary digits, least significant first    *)
(* (zeros at the end do not change the number).  Bytes stay numbers.       *)
(***************************************************************************)
\* the eight binary digits of a byte
ByteBits(b) == [i \in 1 .. 8 |-> (b \div (2 ^ (i - 1))) % 2]

\* the byte of eight binary digits
BitsByte(bits) ==
    bits[1] + 2 * bits[2] + 4 * bits[3] + 8 * bits[4]
      + 16 * bits[5] + 32 * bits[6] + 64 * bits[7] + 128 * bits[8]

\* n & ((1 << w) - 1): the low w digits
MaskBits(bits, w) == [i \in 1 .. w |-> IF i <= Len(bits) THEN bits[i] ELSE 0]

\* n >> k
ShiftRight(bits, k) == SubSeq(bits, k + 1, Len(bits))

\* the position of the highest digit 1 (the bit length of n)
RECURSIVE BitLength(_)
BitLength(bits) ==
    IF bits = << >> THEN 0
    ELSE IF bits[Len(bits)] = 1 THEN Len(bits)
    ELSE BitLength(SubSeq(bits, 1, Len(bits) - 1))

\* n + c for a number c >= 0
RECURSIVE AddSmall(_, _)
AddSmall(bits, c) ==
    IF c = 0 THEN bits
    ELSE IF bits = << >> THEN << c % 2 >> \o AddSmall(<< >>, c \div 2)
    ELSE << (Head(bits) + c) % 2 >> \o AddSmall(Tail(bits), (Head(bits) + c) \div 2)

\* the int of a number c >= 0
IntBits(c) == AddSmall(<< >>, c)

\* n * k + carry for numbers k, carry >= 0
RECURSIVE MulSmall(_, _, _)
MulSmall(bits, k, carry) ==
    IF bits = << >> THEN IntBits(carry)
    ELSE << (Head(bits) * k + carry) % 2 >>
           \o MulSmall(Tail(bits), k, (Head(bits) * k + carry) \div 2)

\* a < b for digit sequences of the same length
RECURSIVE LessSameLen(_, _)
LessSameLen(a, b) ==
    IF a = << >> THEN FALSE
    ELSE IF a[Len(a)] # b[Len(b)] THEN a[Len(a)] < b[Len(b)]
    ELSE LessSameLen(SubSeq(a, 1, Len(a) - 1), SubSeq(b, 1, Len(b) - 1))

\* a < b
Less(a, b) ==
    LET w == IF Len(a) > Len(b) THEN Len(a) ELSE Len(b)
    IN  LessSameLen(MaskBits(a, w), MaskBits(b, w))

(***************************************************************************)
(* A float is an IEEE 754 double: an integer converts to the nearest       *)
(* number of 53 significant binary digits, ties to the even one.           *)
(***************************************************************************)
ToFloat(bits) ==
    LET h == BitLength(bits)
    IN  IF h <= 53 THEN bits
        ELSE LET k      == h - 53
                 kept   == SubSeq(bits, k + 1, h)
                 sticky == \E i \in 1 .. (k - 1) : bits[i] = 1
                 up     == bits[k] = 1 /\ (sticky \/ kept[1] = 1)
             IN  [i \in 1 .. k |-> 0] \o (IF up THEN AddSmall(kept, 1) ELSE kept)

\* int(round(raw_val * scale + offset)) for floats scale, offset that hold
\* integers >= 0 (lines 202-204): the int becomes a float, the product and
\* the sum are rounded to floats, and rounding a float that holds an
\* integer gives that integer
PhysVal(raw_val, scale, offset) ==
    ToFloat(AddSmall(ToFloat(MulSmall(ToFloat(raw_val), scale, 0)), offset))

\* int.from_bytes(bs, "little")
RECURSIVE FromBytesLittle(_)
FromBytesLittle(bs) ==
    IF bs = << >> THEN << >> ELSE ByteBits(Head(bs)) \o FromBytesLittle(Tail(bs))

\* int.from_bytes(bs, "big")
FromBytesBig(bs) == FromBytesLittle(Reverse(bs))

\* int.to_bytes(n, "little") of a value 0 <= v < 256^n
ToBytesLittle(v, n) ==
    [i \in 1 .. n |-> BitsByte(SubSeq(MaskBits(v, 8 * n), 8 * i - 7, 8 * i))]

\* int.to_bytes(n, "big")
ToBytesBig(v, n) == Reverse(ToBytesLittle(v, n))

\* payload[a:b], a Python slice (0-based, b exclusive, clamped to the payload)
Slice(payload, a, b) == SubSeq(payload, a + 1, Min(b, Len(payload)))

(***************************************************************************)
(* SignalMapping.decode: [ok |-> FALSE] is the ValueError it raises (a     *)
(* length outside 1..64, or a negative shift count of the big-endian       *)
(* branch on a payload that is too short).                                 *)
(***************************************************************************)
decode(m, payload) ==
    IF m.length <= 0 \/ m.length > 64 THEN [ok |-> FALSE, value |-> << >>]
    ELSE
      LET end_bit    == m.src_start_bit + m.length - 1
          start_byte == m.src_start_bit \div 8
          end_byte   == end_bit \div 8
          relevant   == Slice(payload, start_byte, end_byte + 1)
          bit_offset == m.src_start_bit % 8
          shift      == 8 * Len(relevant) - m.length - bit_offset
      IN  IF m.endian = "little"
          THEN [ok |-> TRUE,
                value |-> MaskBits(ShiftRight(FromBytesLittle(relevant), bit_offset), m.length)]
          ELSE IF shift < 0 THEN [ok |-> FALSE, value |-> << >>]
          ELSE [ok |-> TRUE,
                value |-> MaskBits(ShiftRight(FromBytesBig(relevant), shift), m.length)]

(***************************************************************************)
(* SignalMapping.encode: clamp, mask to length bits, serialise to          *)
(* ceil(length / 8) bytes in the mapping's byte order.                     *)
(***************************************************************************)
encode(m, value) ==
    LET v1  == IF m.min_value # None /\ Less(value, IntBits(m.min_value[1]))
               THEN IntBits(m.min_value[1]) ELSE value
        v2  == IF m.max_value # None /\ Less(IntBits(m.max_value[1]), v1)
               THEN IntBits(m.max_value[1]) ELSE v1
        raw == MaskBits(v2, m.length)
        num_bytes == (m.length + 7) \div 8
    IN  IF m.endian = "big" THEN ToBytesBig(raw, num_bytes) ELSE ToBytesLittle(raw, num_bytes)

\* default_payload.ljust(8, b"\x00")
Ljust8_mut_nopad(bs) == bs

Ljust8(bs) == bs \o [i \in 1 .. (8 - Len(bs)) |-> 0]

(***************************************************************************)
(* The splice loop of TranslationEntry.apply (lines 208-215): byte i of    *)
(* raw_bytes goes into dest byte (dest_bit + 8 i) // 8, shifted left by    *)
(* dest_bit % 8; bytes past the end of dest are skipped; a bytearray item  *)
(* above 255 is a ValueError.                                              *)
(***************************************************************************)
RECURSIVE Splice(_, _, _, _)
Splice(dest, raw_bytes, dest_bit, i) ==
    IF i >= Len(raw_bytes) THEN [ok |-> TRUE, data |-> dest]
    ELSE
      LET bit_index  == dest_bit + i * 8
          byte_index == bit_index \div 8
          sh         == bit_index % 8
          b          == raw_bytes[i + 1]
      IN  IF byte_index < Len(dest)
          THEN LET kept == dest[byte_index + 1] % (2 ^ sh)
                   new  == kept + b * (2 ^ sh)
               IN  IF new > 255 THEN [ok |-> FALSE, data |-> dest]
                   ELSE Splice([dest EXCEPT ![byte_index + 1] = new], raw_bytes, dest_bit, i + 1)
          ELSE Splice(dest, raw_bytes, dest_bit, i + 1)

\* the loop over self.signals of TranslationEntry.apply (lines 198-215)
RECURSIVE ApplySignals(_, _, _)
ApplySignals(signals, src_data, dest) ==
    IF signals = << >> THEN [ok |-> TRUE, data |-> dest]
    ELSE
      LET mapping == Head(signals)
          raw_val == decode(mapping, src_data)
      IN  IF ~raw_val.ok THEN [ok |-> FALSE, data |-> dest]
          ELSE
            LET enc_val   == PhysVal(raw_val.value, mapping.scale, mapping.offset)
                raw_bytes == encode(mapping, enc_val)
                spliced   == Splice(dest, raw_bytes, mapping.dest_start_bit, 0)
            IN  IF ~spliced.ok THEN spliced
                ELSE ApplySignals(Tail(signals), src_data, spliced.data)

(***************************************************************************)
(* TranslationEntry.apply: [ok |-> FALSE] when an exception leaves it,     *)
(* else the frame it returns (it has no path that returns None).           *)
(***************************************************************************)
apply(entry, message) ==
    LET r == ApplySignals(entry.signals, message.data, Ljust8(entry.default_payload))
    IN  IF ~r.ok THEN [ok |-> FALSE, frame |-> None]
        ELSE [ok |-> TRUE,
              frame |-> Some(CanMessage(entry.target_id, r.data, message.timestamp,
                                        entry.target_is_extended))]

(***************************************************************************)
(* TranslationTable: self._entries is a dict keyed by source_id alone.     *)
(* A table is a function from the IDs to None or Some(entry).              *)
(***************************************************************************)
Ids == {291, 292, 2457}          \* 0x123, 0x124, 0x999

EmptyTable == [i \in Ids |-> None]

\* self._entries[entry.source_id] = entry
add_entry_mut_lost(entries, entry) == entries

add_entry(entries, entry) == [entries EXCEPT ![entry.source_id] = Some(entry)]

\* the check of get_entry on what self._entries.get(source_id) returned
MatchEntry_mut_noext(found, is_extended) == found

MatchEntry(found, is_extended) ==
    IF found # None /\ found[1].source_is_extended = is_extended THEN found ELSE None

get_entry(entries, source_id, is_extended) ==
    MatchEntry(entries[source_id], is_extended)


(***************************************************************************)
(* TranslationTable.from_json on the value json.loads returns.  A JSON     *)
(* value is a record of one field, named after its type: the fields of an  *)
(* object are a record of its keys, a string is the sequence of its        *)
(* characters.                                                             *)
(***************************************************************************)
JNull == [null |-> 0]

JBool(b) == [bool |-> b]

JNum(n) == [num |-> n]

JStr(chars) == [str |-> chars]

JList(items) == [list |-> items]

JObj(fields) == [obj |-> fields]

\* isinstance(x, ...)
Is(raw, type) == type \in DOMAIN raw

\* obj.get(key): None for a missing key
Get(obj, key) == IF key \in DOMAIN obj.obj THEN obj.obj[key] ELSE JNull

\* the value of a digit
DigitValue ==
    ("0" :> 0 @@ "1" :> 1 @@ "2" :> 2 @@ "3" :> 3 @@ "4" :> 4 @@ "5" :> 5 @@ "6" :> 6
       @@ "7" :> 7 @@ "8" :> 8 @@ "9" :> 9 @@ "a" :> 10 @@ "b" :> 11 @@ "c" :> 12
       @@ "d" :> 13 @@ "e" :> 14 @@ "f" :> 15)

\* the number a string of digits of a base writes; ok = FALSE is ValueError
RECURSIVE ParseDigits(_, _, _)
ParseDigits(chars, base, acc) ==
    IF chars = << >> THEN [ok |-> TRUE, value |-> acc]
    ELSE IF Head(chars) \notin DOMAIN DigitValue \/ DigitValue[Head(chars)] >= base
    THEN [ok |-> FALSE, value |-> 0]
    ELSE ParseDigits(Tail(chars), base, acc * base + DigitValue[Head(chars)])

\* int(s, 0) of a string without sign, blanks and underscores: a 0x prefix
\* and hexadecimal digits, or decimal digits without a leading zero
IntBase0(chars) ==
    IF Len(chars) >= 2 /\ chars[1] = "0" /\ chars[2] = "x"
    THEN IF Len(chars) = 2 THEN [ok |-> FALSE, value |-> 0]
         ELSE ParseDigits(SubSeq(chars, 3, Len(chars)), 16, 0)
    ELSE IF chars = << >> THEN [ok |-> FALSE, value |-> 0]
    ELSE IF chars[1] = "0" /\ \E i \in DOMAIN chars : chars[i] # "0"
    THEN [ok |-> FALSE, value |-> 0]
    ELSE ParseDigits(chars, 10, 0)

\* int(x) of a JSON value: a number as it is, a string of decimal digits;
\* ok = FALSE is the TypeError or ValueError
IntOf(raw) ==
    IF Is(raw, "num") THEN [ok |-> TRUE, value |-> raw.num]
    ELSE IF Is(raw, "bool") THEN [ok |-> TRUE, value |-> IF raw.bool THEN 1 ELSE 0]
    ELSE IF Is(raw, "str") /\ raw.str # << >> THEN ParseDigits(raw.str, 10, 0)
    ELSE [ok |-> FALSE, value |-> 0]

\* lines 278-279: int(raw, 0) if isinstance(raw, str) else int(raw)
ParseId(raw) == IF Is(raw, "str") THEN IntBase0(raw.str) ELSE IntOf(raw)

\* bool(x) of a JSON value
Truthy(raw) ==
    IF Is(raw, "bool") THEN raw.bool
    ELSE IF Is(raw, "num") THEN raw.num # 0
    ELSE IF Is(raw, "str") THEN raw.str # << >>
    ELSE IF Is(raw, "list") THEN raw.list # << >>
    ELSE Is(raw, "obj")

\* lines 286-300: the SignalMapping of one element of "signals"; ok = FALSE
\* when the try block raises (the signal is skipped)
ParseSignal(sig) ==
    IF ~Is(sig, "obj") THEN [ok |-> FALSE, mapping |-> None]
    ELSE IF {"src_start_bit", "length", "dest_start_bit"} \ DOMAIN sig.obj # {}
    THEN [ok |-> FALSE, mapping |-> None]
    ELSE
      LET src   == IntOf(sig.obj.src_start_bit)
          len   == IntOf(sig.obj.length)
          dest  == IntOf(sig.obj.dest_start_bit)
          scale == IF "scale" \in DOMAIN sig.obj THEN IntOf(sig.obj.scale) ELSE IntOf(JNum(1))
          offs  == IF "offset" \in DOMAIN sig.obj THEN IntOf(sig.obj.offset) ELSE IntOf(JNum(0))
      IN  IF ~(src.ok /\ len.ok /\ dest.ok /\ scale.ok /\ offs.ok)
          THEN [ok |-> FALSE, mapping |-> None]
          ELSE [ok |-> TRUE,
                mapping |-> Some(SignalMapping(src.value, len.value, dest.value,
                                               scale.value, offs.value, "little"))]

\* lines 284-300: the loop over obj.get("signals", [])
RECURSIVE ParseSignals(_)
ParseSignals(sigs) ==
    IF sigs = << >> THEN << >>
    ELSE LET p == ParseSignal(Head(sigs))
         IN  (IF p.ok THEN p.mapping ELSE << >>) \o ParseSignals(Tail(sigs))

\* bytes(list): ok = FALSE is the ValueError or TypeError of an item that is
\* no number of 0 .. 255
ParseBytes(raw) ==
    IF ~Is(raw, "list") THEN [ok |-> FALSE, bytes |-> << >>]
    ELSE IF \E i \in DOMAIN raw.list :
                ~Is(raw.list[i], "num") \/ raw.list[i].num \notin 0 .. 255
    THEN [ok |-> FALSE, bytes |-> << >>]
    ELSE [ok |-> TRUE, bytes |-> [i \in DOMAIN raw.list |-> raw.list[i].num]]

\* lines 273-309, the body of the loop for one element of "entries":
\* "skip" for an element that is no object, "raise" when an exception
\* leaves the loop, else the entry that is appended
ParseEntry(obj) ==
    IF ~Is(obj, "obj") THEN [kind |-> "skip", entry |-> None]
    ELSE
      LET src_id  == ParseId(Get(obj, "source_id"))
          tgt_id  == ParseId(Get(obj, "target_id"))
          default == IF "default_target_bytes" \in DOMAIN obj.obj
                     THEN ParseBytes(obj.obj.default_target_bytes)
                     ELSE [ok |-> TRUE, bytes |-> << >>]
          sigs    == IF "signals" \in DOMAIN obj.obj THEN obj.obj.signals ELSE JList(<< >>)
      IN  IF ~src_id.ok \/ ~tgt_id.ok \/ ~default.ok
               \/ Is(sigs, "num") \/ Is(sigs, "bool") \/ Is(sigs, "null")
          THEN [kind |-> "raise", entry |-> None]
          ELSE [kind |-> "entry",
                entry |-> Some(TranslationEntry(
                             src_id.value, tgt_id.value,
                             IF Is(sigs, "list") THEN ParseSignals(sigs.list) ELSE << >>,
                             default.bytes,
                             Truthy(Get(obj, "source_is_extended")),
                             Truthy(Get(obj, "target_is_extended"))))]

\* lines 272-310: the loop over data["entries"], from the table built so
\* far; cls(entries) adds the entries in their order
RECURSIVE LoadEntries(_, _)
LoadEntries(objs, entries) ==
    IF objs = << >> THEN [ok |-> TRUE, table |-> entries]
    ELSE LET p == ParseEntry(Head(objs))
         IN  IF p.kind = "raise" THEN [ok |-> FALSE, table |-> EmptyTable]
             ELSE IF p.kind = "skip" THEN LoadEntries(Tail(objs), entries)
             ELSE LoadEntries(Tail(objs), add_entry(entries, p.entry[1]))

\* TranslationTable.from_json; ok = FALSE when an exception leaves it
from_json(data) ==
    IF ~Is(data, "obj") THEN [ok |-> FALSE, table |-> EmptyTable]
    ELSE IF "entries" \notin DOMAIN data.obj THEN [ok |-> FALSE, table |-> EmptyTable]
    ELSE IF ~Is(data.obj.entries, "list") THEN [ok |-> FALSE, table |-> EmptyTable]
    ELSE LoadEntries(data.obj.entries.list, EmptyTable)


(***************************************************************************)
(* Fuzzing strategies (fuzzing.py).  A strategy is a record; class         *)
(* FuzzingStrategy itself raises NotImplementedError.                      *)
(***************************************************************************)
BaseFuzzer == [kind |-> "base", num_random |-> 0, flip_bits |-> FALSE]

NullFuzzer == [kind |-> "null", num_random |-> 0, flip_bits |-> FALSE]

RandomByteFuzzer(num_random, flip_bits) ==
    [kind |-> "random", num_random |-> num_random, flip_bits |-> flip_bits]

\* payload[byte_index] ^ (1 << bit_index)
FlipBit_mut_or(byte, bit_index) ==
    IF (byte \div (2 ^ bit_index)) % 2 = 1 THEN byte ELSE byte + 2 ^ bit_index

FlipBit(byte, bit_index) ==
    IF (byte \div (2 ^ bit_index)) % 2 = 1 THEN byte - 2 ^ bit_index ELSE byte + 2 ^ bit_index

\* the member of self._seen that stands for a payload (lines 100-102, 112-114)
SeenKey_mut_with_id(msg, payload) == << msg.arbitration_id, payload >>

SeenKey(msg, payload) == payload

\* bytes(new_payload) in self._seen, rnd in self._seen (lines 100, 112)
InSeen_mut_never(key, seen_) == FALSE

InSeen(key, seen_) == key \in seen_

\* the bit flip loop of RandomByteFuzzer.handle_unknown (lines 92-108),
\* from bit position i on; acc is [results, seen]
RECURSIVE FlipLoop(_, _, _)
FlipLoop(msg, i, acc) ==
    IF i >= Len(msg.data) * 8 THEN acc
    ELSE
      LET byte_index  == i \div 8
          bit_index   == i % 8
          new_payload == [msg.data EXCEPT ![byte_index + 1] = FlipBit(@, bit_index)]
      IN  IF InSeen(SeenKey(msg, new_payload), acc.seen) THEN FlipLoop(msg, i + 1, acc)
          ELSE FlipLoop(msg, i + 1,
                 [results |-> Append(acc.results,
                                CanMessage(msg.arbitration_id, new_payload,
                                           msg.timestamp, msg.is_extended_id)),
                  seen |-> acc.seen \cup {SeenKey(msg, new_payload)}])

\* the random payload loop (lines 110-120); rnds holds what _random_payload
\* returns in each of the num_random rounds
RECURSIVE RandomLoop(_, _, _)
RandomLoop(msg, rnds, acc) ==
    IF rnds = << >> THEN acc
    ELSE
      LET rnd == Head(rnds)
      IN  IF InSeen(SeenKey(msg, rnd), acc.seen) THEN RandomLoop(msg, Tail(rnds), acc)
          ELSE RandomLoop(msg, Tail(rnds),
                 [results |-> Append(acc.results,
                                CanMessage(msg.arbitration_id, rnd,
                                           msg.timestamp, msg.is_extended_id)),
                  seen |-> acc.seen \cup {SeenKey(msg, rnd)}])

(***************************************************************************)
(* handle_unknown of the three strategies: [ok, results, seen]; ok = FALSE *)
(* is the NotImplementedError of the base class.                           *)
(***************************************************************************)
handle_unknown(fz, seen_, msg, rnds) ==
    IF fz.kind = "base" THEN [ok |-> FALSE, results |-> << >>, seen |-> seen_]
    ELSE IF fz.kind = "null" THEN [ok |-> TRUE, results |-> << >>, seen |-> seen_]
    ELSE
      LET a0 == [results |-> << >>, seen |-> seen_]
          a1 == IF fz.flip_bits THEN FlipLoop(msg, 0, a0) ELSE a0
          a2 == RandomLoop(msg, rnds, a1)
      IN  [ok |-> TRUE, results |-> a2.results, seen |-> a2.seen]


(***************************************************************************)
(* The inputs of the runtime specification.                                *)
(***************************************************************************)
\* 0x123 standard -> 0x456: one byte, scaled by 2, offset 1
EntryA == TranslationEntry(291, 1110, << SignalMapping(0, 8, 0, 2, 1, "little") >>,
                           << >>, FALSE, FALSE)

\* 0x123 extended -> 0x457 extended: no signals, default payload AA
EntryB == TranslationEntry(291, 1111, << >>, << 170 >>, TRUE, TRUE)

\* 0x123 standard -> 0x458: one byte placed at bit 6 of the target
EntryC == TranslationEntry(291, 1112, << SignalMapping(0, 8, 6, 1, 0, "little") >>,
                           << >>, FALSE, FALSE)

EntryChoices == {EntryA, EntryC}

\* the frames on the source bus (the endpoint stamps the time)
FrameChoices ==
    { [id |-> 291, data |-> << 5 >>, ext |-> FALSE],
      [id |-> 291, data |-> << 5 >>, ext |-> TRUE] }

FuzzerChoices == {NullFuzzer, BaseFuzzer, RandomByteFuzzer(2, FALSE)}

\* what _random_payload returns in the rounds of one handle_unknown call: two
\* different payloads, or the same payload twice
RandomDraws == { << << 0 >>, << 255 >> >>, << << 0 >>, << 0 >> >> }

Producers == {1, 2}

Workers == 1 .. MaxSpawns

Keys == Ids \X BOOLEAN

\* event names of _listeners (two of the four) and the callbacks registered
Events == {"received", "unknown"}

Callbacks == {1, 2}

\* the source queues of n frames, stamped 1, 2, ... by the endpoint
SourceQueues(n) ==
    { [i \in 1 .. n |-> CanMessage(c[i].id, c[i].data, i, c[i].ext)] :
        c \in [1 .. n -> FrameChoices] }

\* the frames a worker can receive, with the time stamps of the endpoint
ReceivedFrames ==
    { CanMessage(c.id, c.data, i, c.ext) :
        c \in FrameChoices, i \in (1 .. MaxFrames) \cup (1 .. MaxRaceFrames) }

\* entry.apply(msg) of every entry the table can hold and every frame a worker
\* can receive, computed once
AppliedFrames == [e \in EntryChoices |-> [f \in ReceivedFrames |-> apply(e, f)]]

VARIABLES
    env,         \* the deployment: the threads that call the translator, and
                 \* whether sends and callbacks return within the join timeout
    table,       \* CanTranslator.table._entries
    fuzzer,      \* CanTranslator.fuzzer
    seen,        \* RandomByteFuzzer._seen
    src_open,    \* source._is_open
    tgt_open,    \* target._is_open
    src_queue,   \* the source endpoint's queue of frames
    stop_event,  \* CanTranslator._stop_event
    thread,      \* CanTranslator._thread: None or the worker it references
    lock,        \* owner of CanTranslator._lock, 0 when free
    ppc,         \* where each producer is in start / stop
    pjoin,       \* the worker a producer's stop() is joining
    nspawned,    \* Thread objects created so far
    wpc,         \* where each worker is in _run
    wmsg,        \* _run's msg
    wentry,      \* _run's entry
    wdst,        \* _run's dst_msg
    wfuzz,       \* _run's fuzz_frames
    wk,          \* position of the fuzz frame being sent
    log,         \* history, per source frame: events delivered, lookup, fuzzer call, sends
    lastRet,     \* history: per source_id, the entry of the last add that returned
    cycles,      \* history: receives a worker began with the stop flag set (2: two or more)
    lastAdded,   \* history: per (source_id, extended), the entry last added
    got,         \* table specification: the last get_entry call and its result
    nAdds,       \* table specification: add operations so far
    listeners,   \* CanTranslator._listeners: per event, the callbacks in registration order
    nevent,      \* _notify's event
    nsnap,       \* _notify's copy of the event's list
    npos,        \* callbacks of the copy the loop of _notify has been through
    nphase,      \* where _notify is: "idle", "iterating", "returned", "propagated"
    ncalled,     \* history: the callbacks the running _notify has invoked, and whether each raised
    nbegun,      \* history: the event's list when the running _notify began
    aentry,      \* apply specification: the entry apply is called on
    amsg,        \* apply specification: the source frame
    aout,        \* apply specification: None, or what apply(aentry, amsg) gave
    aperm,       \* apply specification: what apply gave with the signal list reversed
    rmap,        \* round trip specification: the signal mapping
    rval,        \* round trip specification: the value that is encoded
    rout,        \* round trip specification: None, or what decoding gave
    ldoc,        \* loader specification: the parsed JSON document
    lout,        \* loader specification: None, or what from_json gave
    mopen,       \* endpoint specification: MockCanInterface._is_open
    mqueue,      \* endpoint specification: MockCanInterface._queue
    rpc,         \* endpoint specification: where the receiving thread is in receive
    rtimeout,    \* endpoint specification: the timeout argument of the call
    rnotified,   \* endpoint specification: the waiting thread has been notified
    rexpired,    \* endpoint specification: the timeout of the call has elapsed
    rresult,     \* endpoint specification: what the last receive call gave
    nrecv,       \* endpoint specification: receive calls made
    ndeliv,      \* endpoint specification: frames delivered
    fcalls       \* fuzzer specification, history: the handle_unknown calls made,
                 \* each with its frame, self._seen before it, and its results

tvars == << table, lastAdded, got, nAdds >>

evars == << env, fuzzer, seen, src_open, tgt_open, src_queue >>

pvars == << stop_event, thread, lock, ppc, pjoin, nspawned >>

wvars == << wpc, wmsg, wentry, wdst, wfuzz, wk >>

hvars == << log, lastRet, cycles >>

ovars == << listeners, nevent, nsnap, npos, nphase, ncalled, nbegun >>

avars == << aentry, amsg, aout, aperm >>

rvars == << rmap, rval, rout >>

fvars == << fcalls >>

lvars == << ldoc, lout >>

mvars == << mopen, mqueue, rpc, rtimeout, rnotified, rexpired, rresult, nrecv, ndeliv >>

xvars == << rvars, fvars, lvars, mvars >>

vars == << tvars, evars, pvars, wvars, hvars, ovars, avars, xvars >>

\* threading.Thread.is_alive
is_alive(w) == wpc[w] \notin {"unborn", "created", "done"}

\* self._thread is not None and self._thread.is_alive()
Running == thread # None /\ is_alive(thread[1])

LiveWorkers == {w \in Workers : is_alive(w)}

\* the translator as constructed (CanTranslator.__init__) with fuzzer fz, its
\* table empty (main.py without --table), in deployment e, the frames of q
\* waiting on the source endpoint
Constructed(e, fz, q) ==
    /\ env = e
    /\ table = EmptyTable
    /\ lastAdded = [k \in Keys |-> None]
    /\ got = None
    /\ nAdds = 0
    /\ fuzzer = fz
    /\ seen = {}
    /\ src_open = FALSE
    /\ tgt_open = FALSE
    /\ src_queue = q
    /\ stop_event = FALSE
    /\ thread = None
    /\ lock = 0
    /\ ppc = [p \in Producers |-> "idle"]
    /\ pjoin = [p \in Producers |-> 0]
    /\ nspawned = 0
    /\ wpc = [w \in Workers |-> "unborn"]
    /\ wmsg = [w \in Workers |-> None]
    /\ wentry = [w \in Workers |-> None]
    /\ wdst = [w \in Workers |-> None]
    /\ wfuzz = [w \in Workers |-> << >>]
    /\ wk = [w \in Workers |-> 0]
    /\ log = [f \in 1 .. Len(q) |-> << >>]
    /\ lastRet = [i \in Ids |-> None]
    /\ cycles = [w \in Workers |-> 0]
    /\ listeners = [ev \in Events |-> << >>]
    /\ nevent = "received"
    /\ nsnap = << >>
    /\ npos = 0
    /\ nphase = "idle"
    /\ ncalled = << >>
    /\ nbegun = << >>

\* apply has not been called on its own
NoCall ==
    /\ aentry = EntryA
    /\ amsg = CanMessage(291, << 5 >>, 1, FALSE)
    /\ aout = None
    /\ aperm = None

\* no round trip has been made
NoRoundTrip ==
    /\ rmap = SignalMapping(0, 8, 0, 1, 0, "little")
    /\ rval = << >>
    /\ rout = None

\* the loader has not been called
NoLoad == ldoc = JNull /\ lout = None

\* MockCanInterface.__init__: closed, empty queue, no receive call yet
NoEndpoint ==
    /\ mopen = FALSE
    /\ mqueue = << >>
    /\ rpc = "idle"
    /\ rtimeout = "zero"
    /\ rnotified = FALSE
    /\ rexpired = FALSE
    /\ rresult = [kind |-> "nothing", frame |-> None]
    /\ nrecv = 0
    /\ ndeliv = 0

\* the specifications of the parts on their own are at rest
NoExtra == NoRoundTrip /\ fcalls = << >> /\ NoLoad /\ NoEndpoint

\* any thread may call the translator, and a send or a callback may block for
\* longer than the join timeout
Init ==
    \E fz \in FuzzerChoices, q \in SourceQueues(MaxRaceFrames) :
        Constructed([callers |-> Producers, prompt |-> FALSE], fz, q) /\ NoCall /\ NoExtra

\* the deployment of main.py and gui.py: every call comes from the one UI
\* thread, and sends and callbacks return within the join timeout
InitUi ==
    \E fz \in FuzzerChoices, q \in SourceQueues(MaxFrames) :
        Constructed([callers |-> {1}, prompt |-> TRUE], fz, q) /\ NoCall /\ NoExtra

\* one calling thread, and a send or a callback that may block for longer than
\* the join timeout
InitSlow ==
    \E fz \in FuzzerChoices, q \in SourceQueues(MaxFrames) :
        Constructed([callers |-> {1}, prompt |-> FALSE], fz, q) /\ NoCall /\ NoExtra

(***************************************************************************)
(* CanTranslator.start, a producer's call.                                 *)
(***************************************************************************)
\* lines 97-104: take the lock; return if the referenced thread is alive, else
\* open the endpoints that are not open
StartEnter(p) ==
    /\ ppc[p] = "idle"
    /\ lock = 0
    /\ IF Running
       THEN UNCHANGED << lock, ppc, src_open, tgt_open >>
       ELSE /\ nspawned < MaxSpawns
            /\ lock' = p
            /\ src_open' = TRUE
            /\ tgt_open' = TRUE
            /\ ppc' = [ppc EXCEPT ![p] = "start_clear"]
    /\ UNCHANGED << xvars, avars, ovars, tvars, env, fuzzer, seen, src_queue, stop_event, thread,
                    pjoin, nspawned, wvars, hvars >>

\* line 105: self._stop_event.clear()
StartClear(p) ==
    /\ ppc[p] = "start_clear"
    /\ stop_event' = FALSE
    /\ cycles' = [w \in Workers |-> 0]
    /\ ppc' = [ppc EXCEPT ![p] = "start_assign"]
    /\ UNCHANGED << xvars, avars, ovars, tvars, evars, thread, lock, pjoin, nspawned, wvars,
                    log, lastRet >>

\* line 106: self._thread = threading.Thread(...)
StartAssign(p) ==
    /\ ppc[p] = "start_assign"
    /\ nspawned' = nspawned + 1
    /\ thread' = Some(nspawned + 1)
    /\ wpc' = [wpc EXCEPT ![nspawned + 1] = "created"]
    /\ ppc' = [ppc EXCEPT ![p] = "start_run"]
    /\ UNCHANGED << xvars, avars, ovars, tvars, evars, stop_event, lock, pjoin,
                    wmsg, wentry, wdst, wfuzz, wk, hvars >>

\* line 107: self._thread.start(); an AttributeError when a stop() has put None
\* there.  Either way the with block releases the lock.
StartRun(p) ==
    /\ ppc[p] = "start_run"
    /\ IF thread = None
       THEN UNCHANGED wpc
       ELSE wpc' = [wpc EXCEPT ![thread[1]] = "loop"]
    /\ lock' = 0
    /\ ppc' = [ppc EXCEPT ![p] = "idle"]
    /\ UNCHANGED << xvars, avars, ovars, tvars, evars, stop_event, thread, pjoin, nspawned,
                    wmsg, wentry, wdst, wfuzz, wk, hvars >>

(***************************************************************************)
(* CanTranslator.stop, a producer's call; it takes no lock.                *)
(***************************************************************************)
\* line 111: self._stop_event.set()
StopSet(p) ==
    /\ ppc[p] = "idle"
    /\ stop_event' = TRUE
    /\ ppc' = [ppc EXCEPT ![p] = "stop_check"]
    /\ UNCHANGED << xvars, avars, ovars, tvars, evars, thread, lock, pjoin, nspawned, wvars, hvars >>

\* line 112: if self._thread is not None
StopCheck(p) ==
    /\ ppc[p] = "stop_check"
    /\ ppc' = [ppc EXCEPT ![p] = IF thread = None THEN "idle" ELSE "stop_join"]
    /\ UNCHANGED << xvars, avars, ovars, tvars, evars, stop_event, thread, lock, pjoin, nspawned,
                    wvars, hvars >>

\* line 113: self._thread.join(...) reads the attribute again: an AttributeError
\* on None, a RuntimeError on a thread that has not been started
StopJoin(p) ==
    /\ ppc[p] = "stop_join"
    /\ IF thread = None \/ wpc[thread[1]] = "created"
       THEN /\ ppc' = [ppc EXCEPT ![p] = "idle"]
            /\ UNCHANGED pjoin
       ELSE /\ ppc' = [ppc EXCEPT ![p] = "stop_wait"]
            /\ pjoin' = [pjoin EXCEPT ![p] = thread[1]]
    /\ UNCHANGED << xvars, avars, ovars, tvars, evars, stop_event, thread, lock, nspawned, wvars, hvars >>

\* pcs at which a worker is inside a target send, the fuzzer or an observer
BlockingPcs == {"n_received", "n_unknown", "fuzz_send", "n_fsent",
                "n_translated", "send", "n_sent"}

\* the worker can still be running when the 5 s of the join are over: it is
\* blocked in a send or a callback, or a start() has cleared the stop flag
CanOutlastJoin(w) ==
    is_alive(w) /\ ((~env.prompt /\ wpc[w] \in BlockingPcs) \/ ~stop_event)

\* join(timeout=5.0) returns: the worker has exited, or the time is up
StopWait(p) ==
    /\ ppc[p] = "stop_wait"
    /\ wpc[pjoin[p]] = "done" \/ CanOutlastJoin(pjoin[p])
    /\ ppc' = [ppc EXCEPT ![p] = "stop_clear"]
    /\ UNCHANGED << xvars, avars, ovars, tvars, evars, stop_event, thread, lock, pjoin, nspawned,
                    wvars, hvars >>

\* line 114: self._thread = None
StopClear(p) ==
    /\ ppc[p] = "stop_clear"
    /\ thread' = None
    /\ pjoin' = [pjoin EXCEPT ![p] = 0]
    /\ ppc' = [ppc EXCEPT ![p] = "idle"]
    /\ UNCHANGED << xvars, avars, ovars, tvars, evars, stop_event, lock, nspawned, wvars, hvars >>

(***************************************************************************)
(* CanTranslator.add_translation_entry, a producer's call: the lock is     *)
(* taken, the dict item is stored, the lock is released.  Nothing but      *)
(* start() waits for that lock, so the call is one step.                   *)
(***************************************************************************)
AddEntry(p, e) ==
    /\ ppc[p] = "idle"
    /\ lock = 0
    /\ table' = add_entry(table, e)
    /\ lastRet' = [lastRet EXCEPT ![e.source_id] = Some(e)]
    /\ UNCHANGED << xvars, avars, ovars, lastAdded, got, nAdds, evars, pvars, wvars, log, cycles >>


(***************************************************************************)
(* CanTranslator._run, one worker's steps.  A step ends where the worker   *)
(* can block or reads what other threads write: the stop flag, the source  *)
(* queue, an observer fan-out, a target send.                              *)
(***************************************************************************)
\* the source frame a worker is processing, by its time stamp
Src(w) == wmsg[w][1].timestamp

\* a history record: an event delivered to the observers, a call of the fuzzer
\* ("fuzz") or a target send that returned ("send_ok") or raised ("send_err");
\* k is the position of the fuzz frame concerned, 0 on the translated path
Rec(ev, k) == [ev |-> ev, k |-> k, entry |-> None]

\* the history record of a table lookup: what get_entry returned, whether the
\* table held an entry of the frame's ID and addressing mode ("match") or not
\* ("nomatch"), and k = 1 when it held the ID under the other addressing mode
Lookup(found, miss, other) ==
    [ev |-> IF miss THEN "nomatch" ELSE "match", k |-> IF other THEN 1 ELSE 0,
     entry |-> found]

\* the history of the worker's source frame, with one more record
Logged(lg, w, rec) == [lg EXCEPT ![Src(w)] = Append(@, rec)]

\* _notify: every callback of the event is called, an exception of a callback
\* is caught (lines 88-93), and _notify returns: the event has been delivered
_notify(lg, ev, w, k) == Logged(lg, w, Rec(ev, k))

\* the worker drops its locals and begins the next iteration of the loop
NextIteration(w) ==
    /\ wmsg' = [wmsg EXCEPT ![w] = None]
    /\ wentry' = [wentry EXCEPT ![w] = None]
    /\ wdst' = [wdst EXCEPT ![w] = None]
    /\ wfuzz' = [wfuzz EXCEPT ![w] = << >>]
    /\ wk' = [wk EXCEPT ![w] = 0]

\* line 118: while not self._stop_event.is_set()
LoopExits_mut_never(flag) == FALSE

LoopExits(flag) == flag

WLoop(w) ==
    /\ wpc[w] = "loop"
    /\ wpc' = [wpc EXCEPT ![w] = IF LoopExits(stop_event) THEN "done" ELSE "recv"]
    /\ UNCHANGED << xvars, avars, ovars, tvars, evars, pvars, wmsg, wentry, wdst, wfuzz, wk, hvars >>

\* where the worker goes when source.receive raised (lines 121-124)
AfterReceiveError_mut_dies == "done"

AfterReceiveError == "loop"

\* line 120: msg = self.source.receive(timeout=0.1): an exception (the endpoint
\* is not open, or its I/O failed), None (nothing within the timeout), or the
\* head of the queue
WRecv(w) ==
    /\ wpc[w] = "recv"
    /\ cycles' = [cycles EXCEPT ![w] = IF stop_event THEN Min(@ + 1, 2) ELSE @]
    /\ \/ /\ wpc' = [wpc EXCEPT ![w] = AfterReceiveError]
          /\ UNCHANGED << src_queue, wmsg >>
       \/ /\ src_open
          /\ src_queue = << >>
          /\ wpc' = [wpc EXCEPT ![w] = "loop"]
          /\ UNCHANGED << src_queue, wmsg >>
       \/ /\ src_open
          /\ src_queue # << >>
          /\ wmsg' = [wmsg EXCEPT ![w] = Some(Head(src_queue))]
          /\ src_queue' = Tail(src_queue)
          /\ wpc' = [wpc EXCEPT ![w] = "n_received"]
    /\ UNCHANGED << xvars, avars, ovars, tvars, env, fuzzer, seen, src_open, tgt_open, pvars,
                    wentry, wdst, wfuzz, wk, log, lastRet >>

\* an entry of the table has this ID and this addressing mode
HasEntryFor(entries, id, ext) ==
    \E i \in Ids : /\ entries[i] # None
                   /\ entries[i][1].source_id = id
                   /\ entries[i][1].source_is_extended = ext

\* where the worker goes when get_entry returned None (lines 131-133)
AfterMiss_mut_skip == "loop"

AfterMiss_mut_translated == "n_translated"

AfterMiss == "n_unknown"

\* where the worker goes with the frame entry.apply returned (lines 148-151)
AfterApply_mut_send_first == "send"

AfterApply == "n_translated"

\* where the worker goes when entry.apply raised (lines 144-146)
AfterApplyError_mut_dies == "done"

AfterApplyError == "loop"

\* lines 128-149: _notify("received", msg); entry = table.get_entry(...);
\* without an entry the unknown branch, else dst_msg = entry.apply(msg), and the
\* frame is dropped when apply raised or returned None.  The history notes
\* the lookup.
WNotifyReceived(w) ==
    /\ wpc[w] = "n_received"
    /\ LET msg   == wmsg[w][1]
           entry == get_entry(table, msg.arbitration_id, msg.is_extended_id)
           miss  == ~HasEntryFor(table, msg.arbitration_id, msg.is_extended_id)
           other == HasEntryFor(table, msg.arbitration_id, ~msg.is_extended_id)
           lg    == Logged(_notify(log, "received", w, 0), w,
                           Lookup(entry, miss, other))
       IN  /\ log' = lg
           /\ IF entry = None
              THEN /\ wentry' = [wentry EXCEPT ![w] = None]
                   /\ wpc' = [wpc EXCEPT ![w] = AfterMiss]
                   /\ UNCHANGED << wmsg, wdst, wfuzz, wk >>
              ELSE LET r == AppliedFrames[entry[1]][msg]
                   IN  IF r.ok /\ r.frame # None
                       THEN /\ wentry' = [wentry EXCEPT ![w] = entry]
                            /\ wdst' = [wdst EXCEPT ![w] = r.frame]
                            /\ wpc' = [wpc EXCEPT ![w] = AfterApply]
                            /\ UNCHANGED << wmsg, wfuzz, wk >>
                       ELSE /\ wpc' = [wpc EXCEPT ![w] =
                                         IF r.ok THEN "loop" ELSE AfterApplyError]
                            /\ NextIteration(w)
    /\ UNCHANGED << xvars, avars, ovars, tvars, evars, pvars, lastRet, cycles >>

\* where the worker goes when the fuzzer or a send of a fuzz frame raised
\* (lines 139-141)
AfterFuzzError_mut_dies == "done"

AfterFuzzError == "loop"

\* lines 133-135: _notify("unknown", msg), then
\* fuzz_frames = self.fuzzer.handle_unknown(msg)
WNotifyUnknown(w) ==
    /\ wpc[w] = "n_unknown"
    /\ \E draws \in RandomDraws :
         LET rnds == SubSeq(draws, 1, fuzzer.num_random)
             r    == handle_unknown(fuzzer, seen, wmsg[w][1], rnds)
         IN  /\ seen' = r.seen
             /\ log' = Logged(_notify(log, "unknown", w, 0), w, Rec("fuzz", 0))
             /\ IF r.ok /\ r.results # << >>
                THEN /\ wfuzz' = [wfuzz EXCEPT ![w] = r.results]
                     /\ wk' = [wk EXCEPT ![w] = 1]
                     /\ wpc' = [wpc EXCEPT ![w] = "fuzz_send"]
                     /\ UNCHANGED << wmsg, wentry, wdst >>
                ELSE /\ wpc' = [wpc EXCEPT ![w] = IF r.ok THEN "loop" ELSE AfterFuzzError]
                     /\ NextIteration(w)
    /\ UNCHANGED << xvars, avars, ovars, tvars, env, fuzzer, src_open, tgt_open, src_queue, pvars,
                    lastRet, cycles >>

\* where the worker goes when the send of a fuzz frame raised: the except
\* clause is outside the for loop (lines 136-141)
AfterFuzzSendError_mut_next_frame == "n_fsent"

AfterFuzzSendError == AfterFuzzError

\* line 137: self.target.send(fmsg), which returns or raises
WFuzzSend(w) ==
    /\ wpc[w] = "fuzz_send"
    /\ \/ /\ tgt_open
          /\ log' = Logged(log, w, Rec("send_ok", wk[w]))
          /\ wpc' = [wpc EXCEPT ![w] = "n_fsent"]
          /\ UNCHANGED << wmsg, wentry, wdst, wfuzz, wk >>
       \/ /\ log' = Logged(log, w, Rec("send_err", wk[w]))
          /\ wpc' = [wpc EXCEPT ![w] = AfterFuzzSendError]
          /\ IF AfterFuzzSendError = "n_fsent"
             THEN UNCHANGED << wmsg, wentry, wdst, wfuzz, wk >>
             ELSE NextIteration(w)
    /\ UNCHANGED << xvars, avars, ovars, tvars, evars, pvars, lastRet, cycles >>

\* line 138: self._notify("sent", fmsg, None), then the next fuzz frame
WNotifyFuzzSent(w) ==
    /\ wpc[w] = "n_fsent"
    /\ log' = _notify(log, "sent", w, wk[w])
    /\ IF wk[w] < Len(wfuzz[w])
       THEN /\ wk' = [wk EXCEPT ![w] = @ + 1]
            /\ wpc' = [wpc EXCEPT ![w] = "fuzz_send"]
            /\ UNCHANGED << wmsg, wentry, wdst, wfuzz >>
       ELSE /\ wpc' = [wpc EXCEPT ![w] = "loop"]
            /\ NextIteration(w)
    /\ UNCHANGED << xvars, avars, ovars, tvars, evars, pvars, lastRet, cycles >>

\* line 151: self._notify("translated", msg, dst_msg)
WNotifyTranslated(w) ==
    /\ wpc[w] = "n_translated"
    /\ log' = _notify(log, "translated", w, 0)
    /\ wpc' = [wpc EXCEPT ![w] = "send"]
    /\ UNCHANGED << xvars, avars, ovars, tvars, evars, pvars, wmsg, wentry, wdst, wfuzz, wk,
                    lastRet, cycles >>

\* where the worker goes when target.send of the translated frame raised
\* (lines 155-156)
AfterSendError_mut_reports == "n_sent"

AfterSendError == "loop"

\* line 153: self.target.send(dst_msg), which returns or raises
WSend(w) ==
    /\ wpc[w] = "send"
    /\ \/ /\ tgt_open
          /\ log' = Logged(log, w, Rec("send_ok", 0))
          /\ wpc' = [wpc EXCEPT ![w] = "n_sent"]
          /\ UNCHANGED << wmsg, wentry, wdst, wfuzz, wk >>
       \/ /\ log' = Logged(log, w, Rec("send_err", 0))
          /\ wpc' = [wpc EXCEPT ![w] = AfterSendError]
          /\ IF AfterSendError = "loop"
             THEN NextIteration(w)
             ELSE UNCHANGED << wmsg, wentry, wdst, wfuzz, wk >>
    /\ UNCHANGED << xvars, avars, ovars, tvars, evars, pvars, lastRet, cycles >>

\* line 154: self._notify("sent", dst_msg, None); the iteration ends
WNotifySent(w) ==
    /\ wpc[w] = "n_sent"
    /\ log' = _notify(log, "sent", w, 0)
    /\ wpc' = [wpc EXCEPT ![w] = "loop"]
    /\ NextIteration(w)
    /\ UNCHANGED << xvars, avars, ovars, tvars, evars, pvars, lastRet, cycles >>

WorkerStep(w) ==
    \/ WLoop(w)
    \/ WRecv(w)
    \/ WNotifyReceived(w)
    \/ WNotifyUnknown(w)
    \/ WFuzzSend(w)
    \/ WNotifyFuzzSent(w)
    \/ WNotifyTranslated(w)
    \/ WSend(w)
    \/ WNotifySent(w)

Next ==
    \/ \E p \in env.callers : StartEnter(p)
    \/ \E p \in env.callers : StartClear(p)
    \/ \E p \in env.callers : StartAssign(p)
    \/ \E p \in env.callers : StartRun(p)
    \/ \E p \in env.callers : StopSet(p)
    \/ \E p \in env.callers : StopCheck(p)
    \/ \E p \in env.callers : StopJoin(p)
    \/ \E p \in env.callers : StopWait(p)
    \/ \E p \in env.callers : StopClear(p)
    \/ \E p \in env.callers, e \in EntryChoices : AddEntry(p, e)
    \/ \E w \in Workers : WorkerStep(w)

Spec == Init /\ [][Next]_vars

SpecUi == InitUi /\ [][Next]_vars

SpecSlow == InitSlow /\ [][Next]_vars

\* the worker threads run: the interpreter schedules every live thread, the
\* receive returns within its timeout, and in this deployment sends and
\* callbacks return
FairUi == SpecUi /\ \A w \in Workers : WF_vars(WorkerStep(w))

(***************************************************************************)
(* The table on its own: add_entry and get_entry called on a               *)
(* TranslationTable, with no translator running.                           *)
(***************************************************************************)
\* entries of two IDs, both addressing modes, two targets each
TableEntries ==
    { TranslationEntry(sid, tid, << >>, << >>, sext, FALSE) :
        sid \in {291, 292}, tid \in {1110, 1111}, sext \in BOOLEAN }

InitTable ==
    Constructed([callers |-> {}, prompt |-> TRUE], NullFuzzer, << >>) /\ NoCall /\ NoExtra

\* table.add_entry(e)
TableAdd(e) ==
    /\ nAdds < MaxAdds
    /\ nAdds' = nAdds + 1
    /\ table' = add_entry(table, e)
    /\ lastAdded' = [lastAdded EXCEPT ![<< e.source_id, e.source_is_extended >>] = Some(e)]
    /\ UNCHANGED << xvars, avars, ovars, got, evars, pvars, wvars, hvars >>

\* table.get_entry(id, ext)
TableGet(id, ext) ==
    /\ got' = Some([source_id |-> id, is_extended |-> ext,
                    result |-> get_entry(table, id, ext)])
    /\ UNCHANGED << xvars, avars, ovars, table, lastAdded, nAdds, evars, pvars, wvars, hvars >>

NextTable ==
    \/ \E e \in TableEntries : TableAdd(e)
    \/ \E id \in Ids, ext \in BOOLEAN : TableGet(id, ext)

SpecTable == InitTable /\ [][NextTable]_vars

(***************************************************************************)
(* The observers on their own: add_listener called by any thread (a        *)
(* callback included) and _notify run by the worker.                       *)
(***************************************************************************)
InitNotify ==
    Constructed([callers |-> {}, prompt |-> TRUE], NullFuzzer, << >>) /\ NoCall /\ NoExtra

\* lines 77-79: self._listeners[event].append(callback)
add_listener(ls, event, callback) ==
    IF event \in DOMAIN ls THEN [ls EXCEPT ![event] = Append(@, callback)] ELSE ls

AddListener(e, cb) ==
    /\ Len(listeners[e]) < MaxListeners
    /\ listeners' = add_listener(listeners, e, cb)
    /\ UNCHANGED << nevent, nsnap, npos, nphase, ncalled, nbegun,
                    tvars, evars, pvars, wvars, hvars, avars, xvars >>

\* line 88: list(self._listeners.get(event, []))
ListCopy(ls, event) == IF event \in DOMAIN ls THEN ls[event] ELSE << >>

\* line 88: the list the for loop iterates, given the copy and the live list
IterList_mut_live(snap, live) == live

IterList(snap, live) == snap

\* line 88: _notify is entered and takes its copy
NotifyBegin(e) ==
    /\ nphase \in {"idle", "returned"}
    /\ nevent' = e
    /\ nsnap' = ListCopy(listeners, e)
    /\ nbegun' = listeners[e]
    /\ npos' = 0
    /\ ncalled' = << >>
    /\ nphase' = "iterating"
    /\ UNCHANGED << listeners, tvars, evars, pvars, wvars, hvars, avars, xvars >>

\* where _notify goes when a callback raised (lines 91-93)
AfterCallbackError_mut_propagates == "propagated"

AfterCallbackError == "iterating"

\* lines 88-93: the next callback of the list is called; it returns or raises,
\* and it may itself register a listener
NotifyCall ==
    /\ nphase = "iterating"
    /\ LET cur == IterList(nsnap, listeners[nevent])
       IN  /\ npos < Len(cur)
           /\ \E raised \in BOOLEAN :
                /\ ncalled' = Append(ncalled, [cb |-> cur[npos + 1], raised |-> raised])
                /\ nphase' = IF raised THEN AfterCallbackError ELSE "iterating"
           /\ npos' = npos + 1
           /\ \/ UNCHANGED listeners
              \/ \E e \in Events, cb \in Callbacks :
                    /\ Len(listeners[e]) < MaxListeners
                    /\ listeners' = add_listener(listeners, e, cb)
    /\ UNCHANGED << nevent, nsnap, nbegun, tvars, evars, pvars, wvars, hvars, avars, xvars >>

\* the for loop is through the list: _notify returns
NotifyReturn ==
    /\ nphase = "iterating"
    /\ npos >= Len(IterList(nsnap, listeners[nevent]))
    /\ nphase' = "returned"
    /\ UNCHANGED << listeners, nevent, nsnap, npos, ncalled, nbegun,
                    tvars, evars, pvars, wvars, hvars, avars, xvars >>

NextNotify ==
    \/ \E e \in Events, cb \in Callbacks : AddListener(e, cb)
    \/ \E e \in Events : NotifyBegin(e)
    \/ NotifyCall
    \/ NotifyReturn

SpecNotify == InitNotify /\ [][NextNotify]_vars

(***************************************************************************)
(* TranslationEntry.apply on its own: an entry and a source frame are      *)
(* drawn, and apply is called on them, and on the entry with its signal    *)
(* list reversed.                                                          *)
(***************************************************************************)
\* signal mappings: source bytes 0 and 1, 4 to 16 bits, target windows at a
\* byte boundary, inside a byte and at the last byte; scale 2, offset 1
ApplyMappings ==
    { SignalMapping(src, len, dest, 2, 1, endian) :
        src \in {0, 8}, len \in {4, 8, 16}, dest \in {0, 4, 56},
        endian \in {"little", "big"} }

\* signal lists of up to n mappings
RECURSIVE SignalLists(_)
SignalLists(n) ==
    IF n = 0 THEN { << >> }
    ELSE LET shorter == SignalLists(n - 1)
         IN  shorter \cup { Append(l, m) : l \in {x \in shorter : Len(x) = n - 1},
                                           m \in ApplyMappings }

\* target ID, target addressing mode and default payload (0, 1 and 8 bytes)
ApplyHeads ==
    { [tid |-> 1110, text |-> FALSE, default |-> << >>],
      [tid |-> 1111, text |-> TRUE, default |-> << 255 >>],
      [tid |-> 1112, text |-> FALSE, default |-> << 1, 2, 4, 8, 16, 32, 64, 128 >>] }

ApplyEntries ==
    { TranslationEntry(291, h.tid, l, h.default, FALSE, h.text) :
        h \in ApplyHeads, l \in SignalLists(MaxSignals) }

\* source frames of one and of two bytes
ApplyFrames ==
    { CanMessage(291, << 5 >>, 1, FALSE), CanMessage(291, << 255, 1 >>, 2, FALSE) }

InitApply ==
    /\ Constructed([callers |-> {}, prompt |-> TRUE], NullFuzzer, << >>)
    /\ aentry \in ApplyEntries
    /\ amsg \in ApplyFrames
    /\ aout = None
    /\ aperm = None
    /\ NoExtra

\* dst_msg = entry.apply(msg), as _run calls it (line 143)
ApplyCall ==
    /\ aout = None
    /\ aout' = Some(apply(aentry, amsg))
    /\ aperm' = Some(apply([aentry EXCEPT !.signals = Reverse(@)], amsg))
    /\ UNCHANGED << aentry, amsg, ovars, tvars, evars, pvars, wvars, hvars, xvars >>

NextApply == ApplyCall

SpecApply == InitApply /\ [][NextApply]_vars

(***************************************************************************)
(* TranslationEntry.apply on the pass-through entry: one little-endian     *)
(* signal of 64 bits from bit 0 to bit 0, scale 1.0 and offset 0.0 (the    *)
(* defaults of SignalMapping), no default payload.                         *)
(***************************************************************************)
IdentityEntry ==
    TranslationEntry(256, 512, << SignalMapping(0, 64, 0, 1, 0, "little") >>,
                     << >>, FALSE, FALSE)

\* source payloads of 8 bytes: values below and above 2^53, among them
\* DE AD BE EF 01 02 03 04 and FF FF BE EF 01 02 FF FF
IdentityPayloads ==
    { << b0, b1, 190, 239, 1, 2, b6, b7 >> :
        b0 \in {0, 1, 222, 255}, b1 \in {0, 173, 255},
        b6 \in {0, 3, 255}, b7 \in {0, 4, 32, 255} }

InitIdentity ==
    /\ Constructed([callers |-> {}, prompt |-> TRUE], NullFuzzer, << >>)
    /\ aentry = IdentityEntry
    /\ amsg \in { CanMessage(256, d, 1, FALSE) : d \in IdentityPayloads }
    /\ aout = None
    /\ aperm = None
    /\ NoExtra

SpecIdentity == InitIdentity /\ [][NextApply]_vars

(***************************************************************************)
(* SignalMapping.encode and SignalMapping.decode on their own: a value is  *)
(* encoded, the bytes are spliced into a payload of 8 zero bytes at        *)
(* src_start_bit by the loop of apply, and the payload is decoded.         *)
(***************************************************************************)
\* signal mappings without clamps whose source window is inside 8 bytes
RoundMappings ==
    { m \in { SignalMapping(src, len, 0, 1, 0, endian) :
                src \in {0, 4, 8, 48}, len \in {1, 4, 8, 12, 16, 64},
                endian \in {"little", "big"} } :
        m.src_start_bit + m.length <= 64 }

\* values of [0, 2^len): 0, 1, 5, 0xAB, 0xABC (masked to len bits), and 2^len - 1
RoundValues(len) ==
    { MaskBits(IntBits(c), len) : c \in {0, 1, 5, 171, 2748} }
        \cup { [i \in 1 .. len |-> 1] }

InitRound ==
    /\ Constructed([callers |-> {}, prompt |-> TRUE], NullFuzzer, << >>)
    /\ NoCall
    /\ rmap \in RoundMappings
    /\ rval \in RoundValues(rmap.length)
    /\ rout = None
    /\ fcalls = << >>
    /\ NoLoad
    /\ NoEndpoint

\* M.decode of the payload of 8 zero bytes with M.encode(v) spliced in at
\* M.src_start_bit
RoundTripOf(m, v) ==
    LET spliced == Splice([i \in 1 .. 8 |-> 0], encode(m, v), m.src_start_bit, 0)
    IN  IF ~spliced.ok THEN [ok |-> FALSE, value |-> << >>]
        ELSE decode(m, spliced.data)

RoundTrip ==
    /\ rout = None
    /\ rout' = Some(RoundTripOf(rmap, rval))
    /\ UNCHANGED << rmap, rval, fvars, lvars, mvars, avars, ovars, tvars, evars, pvars, wvars, hvars >>

NextRound == RoundTrip

SpecRound == InitRound /\ [][NextRound]_vars

(***************************************************************************)
(* One RandomByteFuzzer on its own: handle_unknown is called on it, one    *)
(* call after the other, with any frame and any outcome of the random      *)
(* draws.                                                                  *)
(***************************************************************************)
\* the fuzzers: bit flips and two random frames, random frames alone
FuzzConfigs == { RandomByteFuzzer(2, TRUE), RandomByteFuzzer(1, FALSE) }

\* unknown frames: two IDs, payloads of one and of two bytes, two payloads
\* one bit apart
FuzzFrames ==
    { CanMessage(291, << 5 >>, 1, FALSE), CanMessage(291, << 4 >>, 2, FALSE),
      CanMessage(292, << 5 >>, 3, TRUE), CanMessage(292, << 5, 0 >>, 4, TRUE) }

\* what _random_payload(n) may return
RandomPayloads(n) == { [i \in 1 .. n |-> b] : b \in {4, 255} }

\* the outcomes of the k draws of one call
FuzzDraws(n, k) == [1 .. k -> RandomPayloads(n)]

InitFuzz ==
    \E fz \in FuzzConfigs :
        /\ Constructed([callers |-> {}, prompt |-> TRUE], fz, << >>)
        /\ NoCall
        /\ NoRoundTrip
        /\ NoLoad
        /\ NoEndpoint
        /\ fcalls = << >>

\* results = fuzzer.handle_unknown(msg)
FuzzCall(msg, rnds) ==
    /\ Len(fcalls) < MaxCalls
    /\ LET r == handle_unknown(fuzzer, seen, msg, rnds)
       IN  /\ seen' = r.seen
           /\ fcalls' = Append(fcalls, [msg |-> msg, before |-> seen, results |-> r.results])
    /\ UNCHANGED << rvars, lvars, mvars, avars, ovars, tvars, env, fuzzer, src_open, tgt_open,
                    src_queue, pvars, wvars, hvars >>

NextFuzz ==
    \E msg \in FuzzFrames :
        \E rnds \in FuzzDraws(Len(msg.data), fuzzer.num_random) : FuzzCall(msg, rnds)

SpecFuzz == InitFuzz /\ [][NextFuzz]_vars

(***************************************************************************)
(* TranslationTable.from_json on its own: a document is drawn and loaded.  *)
(***************************************************************************)
\* elements of "signals": a good one and one without a length
LoaderSignals ==
    << [src_start_bit |-> JNum(0), length |-> JNum(8), dest_start_bit |-> JNum(0)],
       [src_start_bit |-> JNum(0), dest_start_bit |-> JNum(8)] >>

\* elements of "entries": entries with numeric and with string IDs, an entry
\* without source_id, with a source_id that is no number, with a null
\* target_id, with a default byte above 255, and an element that is no
\* object
LoaderObjects ==
    { JObj([source_id |-> JNum(291), target_id |-> JNum(1110),
            signals |-> JList([i \in 1 .. 2 |-> JObj(LoaderSignals[i])])]),
      JObj([source_id |-> JStr(<< "0", "x", "1", "2", "4" >>),
            target_id |-> JStr(<< "0", "x", "4", "5", "7" >>),
            source_is_extended |-> JBool(TRUE),
            default_target_bytes |-> JList(<< JNum(170) >>)]),
      JObj([source_id |-> JStr(<< "2", "9", "1" >>), target_id |-> JNum(1112)]),
      JObj([target_id |-> JNum(1110)]),
      JObj([source_id |-> JStr(<< "a", "b", "c" >>), target_id |-> JNum(1110)]),
      JObj([source_id |-> JNum(2457), target_id |-> JNull]),
      JObj([source_id |-> JNum(2457), target_id |-> JNum(1),
            default_target_bytes |-> JList(<< JNum(300) >>)]),
      JNum(7) }

\* the sequences of up to n elements
RECURSIVE LoaderLists(_)
LoaderLists(n) ==
    IF n = 0 THEN { << >> }
    ELSE LET shorter == LoaderLists(n - 1)
         IN  shorter \cup { Append(l, o) : l \in {x \in shorter : Len(x) = n - 1},
                                           o \in LoaderObjects }

\* documents with an entries array, and documents without one: an array, an
\* object without the key, an object whose "entries" is an object
LoaderDocs ==
    { JObj([entries |-> JList(l)]) : l \in LoaderLists(MaxEntries) }
        \cup { JList(<< >>), JObj([version |-> JNum(1)]),
               JObj([entries |-> JObj([version |-> JNum(1)])]) }

InitLoad ==
    /\ Constructed([callers |-> {}, prompt |-> TRUE], NullFuzzer, << >>)
    /\ NoCall
    /\ NoRoundTrip
    /\ NoEndpoint
    /\ fcalls = << >>
    /\ ldoc \in LoaderDocs
    /\ lout = None

\* TranslationTable.from_json(json_str)
Load ==
    /\ lout = None
    /\ lout' = Some(from_json(ldoc))
    /\ UNCHANGED << ldoc, rvars, fvars, mvars, avars, ovars, tvars, evars, pvars, wvars, hvars >>

NextLoad == Load

SpecLoad == InitLoad /\ [][NextLoad]_vars

(***************************************************************************)
(* One MockCanInterface on its own (can_interface.py): a thread calls      *)
(* receive, other threads open and close the endpoint and deliver frames   *)
(* to it (send of the peer, or of the endpoint itself).  What receive does *)
(* while it holds _queue_lock is one step; Condition.wait gives the lock   *)
(* up and returns after a notify or when its timeout has elapsed.          *)
(***************************************************************************)
\* the frames delivered
MockFrames == { CanMessage(291, << 5 >>, 1, FALSE), CanMessage(292, << 6 >>, 2, TRUE) }

\* the timeout argument: 0, a T > 0, None
Timeouts == {"zero", "timed", "none"}

\* return from receive
Returned(kind, frame) ==
    /\ rpc' = "idle"
    /\ rresult' = [kind |-> kind, frame |-> frame]

\* lines 383-391: the while loop of receive, from its test on: a frame is
\* there and is popped, or the timeout has elapsed, or the thread waits
LoopCheck ==
    IF mqueue # << >>
    THEN /\ Returned("frame", Some(Head(mqueue)))
         /\ mqueue' = Tail(mqueue)
    ELSE IF rtimeout # "none" /\ rexpired
    THEN /\ Returned("none", None)
         /\ mqueue' = mqueue
    ELSE /\ rpc' = "waiting"
         /\ UNCHANGED << rresult, mqueue >>

\* open()
MockOpen ==
    /\ mopen' = TRUE
    /\ UNCHANGED << mqueue, rpc, rtimeout, rnotified, rexpired, rresult, nrecv, ndeliv,
                    rvars, fvars, lvars, avars, ovars, tvars, evars, pvars, wvars, hvars >>

\* close(): clear _is_open and notify_all
MockClose ==
    /\ mopen' = FALSE
    /\ rnotified' = (rpc = "waiting")
    /\ UNCHANGED << mqueue, rpc, rtimeout, rexpired, rresult, nrecv, ndeliv,
                    rvars, fvars, lvars, avars, ovars, tvars, evars, pvars, wvars, hvars >>

\* _deliver(message): append and notify
Deliver(f) ==
    /\ ndeliv < MaxDelivered
    /\ ndeliv' = ndeliv + 1
    /\ mqueue' = Append(mqueue, f)
    /\ rnotified' = (rnotified \/ rpc = "waiting")
    /\ UNCHANGED << mopen, rpc, rtimeout, rexpired, rresult, nrecv,
                    rvars, fvars, lvars, avars, ovars, tvars, evars, pvars, wvars, hvars >>

\* receive(timeout), lines 378-379: RuntimeError on an endpoint that is not open
RecvCall(t) ==
    /\ rpc = "idle"
    /\ nrecv < MaxReceives
    /\ nrecv' = nrecv + 1
    /\ rtimeout' = t
    /\ rexpired' = FALSE
    /\ rnotified' = FALSE
    /\ IF mopen THEN rpc' = "entered" /\ rresult' = [kind |-> "nothing", frame |-> None]
       ELSE Returned("error", None)
    /\ UNCHANGED << mopen, mqueue, ndeliv,
                    rvars, fvars, lvars, avars, ovars, tvars, evars, pvars, wvars, hvars >>

\* lines 380-391: take _queue_lock; with timeout 0 and an empty queue return
\* None, else enter the loop
RecvLocked ==
    /\ rpc = "entered"
    /\ IF mqueue = << >> /\ rtimeout = "zero"
       THEN Returned("none", None) /\ mqueue' = mqueue
       ELSE LoopCheck
    /\ UNCHANGED << mopen, rtimeout, rnotified, rexpired, nrecv, ndeliv,
                    rvars, fvars, lvars, avars, ovars, tvars, evars, pvars, wvars, hvars >>

\* the T seconds of a call with a timeout T > 0 elapse
Tick ==
    /\ rpc \in {"entered", "waiting"}
    /\ rtimeout = "timed"
    /\ ~rexpired
    /\ rexpired' = TRUE
    /\ UNCHANGED << mopen, mqueue, rpc, rtimeout, rnotified, rresult, nrecv, ndeliv,
                    rvars, fvars, lvars, avars, ovars, tvars, evars, pvars, wvars, hvars >>

\* line 390: wait returns, after a notify or at the end of its timeout, and
\* the loop tests again
RecvWake ==
    /\ rpc = "waiting"
    /\ rnotified \/ (rtimeout = "timed" /\ rexpired)
    /\ rnotified' = FALSE
    /\ LoopCheck
    /\ UNCHANGED << mopen, rtimeout, rexpired, nrecv, ndeliv,
                    rvars, fvars, lvars, avars, ovars, tvars, evars, pvars, wvars, hvars >>

InitMock ==
    /\ Constructed([callers |-> {}, prompt |-> TRUE], NullFuzzer, << >>)
    /\ NoCall
    /\ NoRoundTrip
    /\ NoLoad
    /\ fcalls = << >>
    /\ NoEndpoint

NextMock ==
    \/ MockOpen
    \/ MockClose
    \/ \E f \in MockFrames : Deliver(f)
    \/ \E t \in Timeouts : RecvCall(t)
    \/ RecvLocked
    \/ Tick
    \/ RecvWake

SpecMock == InitMock /\ [][NextMock]_vars

\* the receiving thread runs when it can, and time passes
FairMock == SpecMock /\ WF_vars(RecvLocked) /\ WF_vars(RecvWake) /\ WF_vars(Tick)

(***************************************************************************)
(* Properties.                                                             *)
(***************************************************************************)
Frames == DOMAIN log

\* positions of the records of event ev in a frame's history
At(lg, ev) == {i \in DOMAIN lg : lg[i].ev = ev}

\* the frame has been received and no worker is still processing it
FrameDone(f) ==
    /\ log[f] # << >>
    /\ \A w \in Workers : wmsg[w] = None \/ wmsg[w][1].timestamp # f

\* C1: at most one worker thread of a translator is live at any time, under
\* every interleaving of start() and stop(), a stop() whose join timed out
\* included.
C1_AtMostOneLiveWorker == Cardinality(LiveWorkers) <= 1

\* C2: for every key (id, ext), get(id, ext) returns the entry most recently
\* added with exactly that key; an add under the other addressing mode of the
\* same ID does not remove or replace it.
C2_KeyedByIdAndMode ==
    \A key \in Keys :
        lastAdded[key] # None => get_entry(table, key[1], key[2]) = lastAdded[key]

\* C3: whenever get(id, ext) returns an entry, the entry has source_id = id and
\* source_is_extended = ext.
C3_GetReturnsMatchingEntry ==
    (got # None /\ got[1].result # None) =>
        /\ got[1].result[1].source_id = got[1].source_id
        /\ got[1].result[1].source_is_extended = got[1].is_extended

\* a get returned an entry of an ID that was also added under the other
\* addressing mode
C3_Witness ==
    /\ got # None
    /\ got[1].result # None
    /\ lastAdded[<< got[1].source_id, ~got[1].is_extended >>] # None

\* C4: for a frame the table has no entry for (same ID and same addressing
\* mode), the worker emits no translated event, at most one unknown event and
\* one fuzzer call, exactly one of each once it is through with the frame; with
\* the Null fuzzer nothing is sent and no sent event is emitted; and the worker
\* leaves the unknown branch for the next iteration, never for its exit.
C4_UnknownFrameState ==
    \A f \in Frames :
        At(log[f], "nomatch") # {} =>
            /\ At(log[f], "translated") = {}
            /\ Cardinality(At(log[f], "unknown")) <= 1
            /\ Cardinality(At(log[f], "fuzz")) <= 1
            /\ FrameDone(f) => /\ Cardinality(At(log[f], "unknown")) = 1
                               /\ Cardinality(At(log[f], "fuzz")) = 1
            /\ fuzzer = NullFuzzer =>
                 /\ At(log[f], "send_ok") = {}
                 /\ At(log[f], "send_err") = {}
                 /\ At(log[f], "sent") = {}

C4_WorkerGoesOn ==
    \A w \in Workers :
        (wpc[w] \in {"n_unknown", "fuzz_send", "n_fsent"} /\ wpc'[w] # wpc[w]) =>
            wpc'[w] \in {"fuzz_send", "n_fsent", "loop"}

C4_UnknownFrame == []C4_UnknownFrameState /\ [][C4_WorkerGoesOn]_vars

\* with the Null fuzzer the worker is through with a frame whose ID the table
\* holds under the other addressing mode only
C4_Witness ==
    \E f \in Frames :
        /\ fuzzer = NullFuzzer
        /\ FrameDone(f)
        /\ Len(log[f]) = 4
        /\ log[f][2].ev = "nomatch" /\ log[f][2].k = 1
        /\ log[f][3].ev = "unknown"
        /\ log[f][4].ev = "fuzz"

\* C5: every send on the target caused by a source frame comes after the
\* translated event (translated path) or the unknown event (fuzzing path) of
\* that frame.
C5_SendAfterEvent ==
    \A f \in Frames :
        \A i \in At(log[f], "send_ok") \cup At(log[f], "send_err") :
            \E j \in 1 .. (i - 1) :
                log[f][j].ev = IF log[f][i].k = 0 THEN "translated" ELSE "unknown"

\* one frame was translated and sent, another was fuzzed and a fuzz frame sent
C5_Witness ==
    \E f, g \in Frames :
        /\ \E i \in At(log[f], "send_ok") : log[f][i].k = 0
        /\ \E i \in At(log[g], "send_ok") : log[g][i].k > 0

\* C6: a sent event is emitted for a frame only after target.send of that
\* frame returned without error; a frame whose send raised produces none.
C6_SentOnlyAfterSend ==
    \A f \in Frames :
        \A i \in At(log[f], "sent") :
            /\ \E j \in 1 .. (i - 1) :
                   log[f][j].ev = "send_ok" /\ log[f][j].k = log[f][i].k
            /\ \A j \in At(log[f], "send_err") : log[f][j].k # log[f][i].k

\* a translated frame was sent and reported, the send of another frame raised
\* and the worker is through with it
C6_Witness ==
    \E f, g \in Frames :
        /\ \E i \in At(log[f], "sent") : log[f][i].k = 0
        /\ At(log[g], "send_err") # {}
        /\ FrameDone(g)

\* C7: once the stop flag is set, every live worker has exited at some later
\* time, unless a start() clears the flag; a worker begins at most one receive
\* with the flag set; and from the loop test with the flag set it goes nowhere
\* but to its exit, from which it does not return.
C7_EventuallyExits ==
    (stop_event /\ LiveWorkers # {}) ~> (LiveWorkers = {} \/ ~stop_event)

C7_AtMostOneCycle == \A w \in Workers : cycles[w] <= 1

C7_NoNewReceive ==
    \A w \in Workers :
        /\ (wpc[w] = "loop" /\ stop_event /\ wpc'[w] # wpc[w]) => wpc'[w] = "done"
        /\ wpc[w] = "done" => wpc'[w] = "done"

C7_StopEndsWorker ==
    C7_EventuallyExits /\ []C7_AtMostOneCycle /\ [][C7_NoNewReceive]_vars

\* a worker has exited after a receive it began with the stop flag set
C7_Witness ==
    \E w \in Workers : wpc[w] = "done" /\ stop_event /\ cycles[w] = 1

\* C8: a start() that goes past its running test (and so clears the stop
\* flag and spawns a thread) does so only when no worker is live.
C8_StartOnlyWhenNoWorker ==
    [][\A p \in Producers :
         (ppc[p] = "idle" /\ ppc'[p] = "start_clear") => LiveWorkers = {}]_vars

\* C9: a worker exits only from the loop test, and only with the stop flag
\* set: no receive, apply, send or fuzzer error takes it there.
C9_ExitStep ==
    \A w \in Workers :
        (wpc[w] # "done" /\ wpc'[w] = "done") => (wpc[w] = "loop" /\ stop_event)

C9_ExitOnlyOnStop == [][C9_ExitStep]_vars

\* apply raised on the first frame, a send of the second frame raised, and the
\* worker is at its next receive
C9_Witness ==
    /\ \E w \in Workers : wpc[w] = "recv"
    /\ FrameDone(1) /\ Len(log[1]) = 2 /\ log[1][2].ev = "match"
    /\ FrameDone(2) /\ At(log[2], "send_err") # {}

\* C10: a lookup of the worker returns the whole entry of the last
\* add_translation_entry that returned for the frame's ID, when that entry
\* has the frame's addressing mode.
C10_LookupStep ==
    \A w \in Workers :
        (wpc[w] = "n_received" /\ wpc'[w] # "n_received") =>
            LET msg  == wmsg[w][1]
                last == lastRet[msg.arbitration_id]
                lg   == log'[msg.timestamp]
            IN  (last # None /\ last[1].source_is_extended = msg.is_extended_id) =>
                    lg[Len(lg)].entry = last

C10_LookupSeesLastAdd == [][C10_LookupStep]_vars

\* the worker found EntryA for one frame and, after an add that replaced it
\* while the worker ran, EntryC for the next
C10_Witness ==
    \E f, g \in Frames :
        /\ f < g
        /\ \E i \in At(log[f], "match") : log[f][i].entry = Some(EntryA)
        /\ \E i \in At(log[g], "match") : log[g][i].entry = Some(EntryC)

\* C11: frames are processed in the order the source endpoint returns them:
\* once an event or a send of a later frame has happened, no event and no send
\* of an earlier frame happens any more.
C11_FrameStep ==
    \A f, g \in Frames : (f < g /\ log[g] # << >>) => log'[f] = log[f]

C11_FramesInOrder == [][C11_FrameStep]_vars

\* the callbacks of a history of calls, in the order of the calls
CalledCbs == [i \in DOMAIN ncalled |-> ncalled[i].cb]

\* C12: a notification invokes the callbacks registered for its event when it
\* began, each once and in registration order, and no other: what it has
\* invoked so far is a prefix of that list, and all of it when it returns.
C12_SnapshotFanOut ==
    /\ nphase # "idle" =>
          /\ Len(ncalled) <= Len(nbegun)
          /\ CalledCbs = SubSeq(nbegun, 1, Len(ncalled))
    /\ nphase = "returned" => CalledCbs = nbegun

\* the fan-out has been through the two or more callbacks registered when it
\* began, and a listener registered for the event meanwhile is in the list
C12_Witness ==
    /\ nphase = "iterating"
    /\ Len(nbegun) >= 2
    /\ npos = Len(nbegun)
    /\ Len(listeners[nevent]) > Len(nbegun)

Applied == aout # None /\ aout[1].ok

\* the frame apply returned
G == aout[1].frame[1]

\* bit pos of a payload, bit 0 the least significant bit of byte 0
Bit(data, pos) == (data[(pos \div 8) + 1] \div (2 ^ (pos % 8))) % 2

\* bit j of an int
BitOf(v, j) == IF j < Len(v) THEN v[j + 1] ELSE 0

\* the target window of a mapping holds bit pos
InWindow(m, pos) == m.dest_start_bit <= pos /\ pos < m.dest_start_bit + m.length

\* the payload of the frame is long enough for the source window of a mapping
SourceFits(m, data) == m.src_start_bit + m.length <= 8 * Len(data)

\* the value a mapping is to place: the decoded source value, scaled and
\* offset, masked to the length of the mapping
Placed(m, data) == MaskBits(PhysVal(decode(m, data).value, m.scale, m.offset), m.length)

\* C14: the frame G that apply returns for entry E and source frame F has
\* E's target ID and target addressing mode, 8 data bytes and F's time stamp.
C14_FrameHeader ==
    Applied =>
        /\ G.arbitration_id = aentry.target_id
        /\ G.is_extended_id = aentry.target_is_extended
        /\ Len(G.data) = 8
        /\ G.timestamp = amsg.timestamp

\* apply returned a frame for an entry with signals and a default payload
\* shorter than 8 bytes
C14_Witness ==
    /\ Applied
    /\ aentry.signals # << >>
    /\ Len(aentry.default_payload) = 1

\* C15: every bit of G.data outside all target windows equals that bit of
\* the default payload padded with zero bytes to 8 bytes.
C15_UncoveredBitsKeepDefault ==
    Applied =>
        \A pos \in 0 .. 63 :
            (\A i \in DOMAIN aentry.signals : ~InWindow(aentry.signals[i], pos)) =>
                Bit(G.data, pos) = Bit(Ljust8(aentry.default_payload), pos)

\* C16: for an entry with one little-endian mapping whose source window is
\* in the payload and whose target window ends at bit 63 or before, apply
\* returns a frame whose target window holds the scaled value, bit for bit.
C16_BitLevelPlacement ==
    (/\ aout # None
     /\ Len(aentry.signals) = 1
     /\ aentry.signals[1].endian = "little"
     /\ aentry.signals[1].dest_start_bit + aentry.signals[1].length <= 64
     /\ SourceFits(aentry.signals[1], amsg.data)) =>
        /\ aout[1].ok
        /\ LET m == aentry.signals[1]
           IN  \A j \in 0 .. (m.length - 1) :
                   Bit(G.data, m.dest_start_bit + j) = BitOf(Placed(m, amsg.data), j)

\* the target windows of two mappings share a bit
Overlap(m1, m2) == \E pos \in 0 .. 63 : InWindow(m1, pos) /\ InWindow(m2, pos)

\* C17: when the target windows of two little-endian mappings overlap (both
\* inside the 8 bytes, both source windows inside the payload), the window of
\* the later mapping holds the later value and the bits of the earlier
\* window outside it hold the earlier value.
C17_LaterMappingWins ==
    (/\ aout # None
     /\ Len(aentry.signals) = 2
     /\ \A i \in 1 .. 2 :
           /\ aentry.signals[i].endian = "little"
           /\ aentry.signals[i].dest_start_bit + aentry.signals[i].length <= 64
           /\ SourceFits(aentry.signals[i], amsg.data)
     /\ Overlap(aentry.signals[1], aentry.signals[2])) =>
        /\ aout[1].ok
        /\ LET m1 == aentry.signals[1]
               m2 == aentry.signals[2]
           IN  /\ \A j \in 0 .. (m2.length - 1) :
                      Bit(G.data, m2.dest_start_bit + j) = BitOf(Placed(m2, amsg.data), j)
               /\ \A j \in 0 .. (m1.length - 1) :
                      ~InWindow(m2, m1.dest_start_bit + j) =>
                          Bit(G.data, m1.dest_start_bit + j) = BitOf(Placed(m1, amsg.data), j)

\* C18: for an entry of two mappings with disjoint target windows, apply
\* gives the same result when the signal list is in the opposite order.
C18_OrderIndependent ==
    (/\ aout # None
     /\ Len(aentry.signals) = 2
     /\ ~Overlap(aentry.signals[1], aentry.signals[2])) =>
        aperm = aout

\* C19: when the payload of the source frame is shorter than the source
\* window of some mapping, apply returns no frame.
C19_ShortPayloadNoFrame ==
    (/\ aout # None
     /\ \E i \in DOMAIN aentry.signals : ~SourceFits(aentry.signals[i], amsg.data)) =>
        ~aout[1].ok

\* C20: when the target window of some mapping extends past bit 63, apply
\* fails and returns no frame.
C20_PastBit63Fails ==
    (/\ aout # None
     /\ \E i \in DOMAIN aentry.signals :
           aentry.signals[i].dest_start_bit + aentry.signals[i].length > 64) =>
        ~aout[1].ok

\* C21: for a mapping M without clamps, of 1 to 64 bits and with its source
\* window inside 8 bytes, and a value v of [0, 2^length), decoding the
\* payload of 8 zero bytes with M.encode(v) spliced in at M.src_start_bit
\* gives v.
C21_RoundTrip ==
    rout # None => (rout[1].ok /\ rout[1].value = rval)

\* C22: apply of the pass-through entry returns a frame with the target ID
\* and the 8 data bytes of the source frame.
C22_IdentityPassthrough ==
    (aout # None /\ aentry = IdentityEntry) =>
        /\ aout[1].ok
        /\ G.arbitration_id = 512
        /\ G.data = amsg.data

\* the frames the calls 1 .. c of the fuzzer returned, in order
RECURSIVE EmittedUpTo(_)
EmittedUpTo(c) == IF c = 0 THEN << >> ELSE EmittedUpTo(c - 1) \o fcalls[c].results

\* all frames the fuzzer has emitted
Emitted == EmittedUpTo(Len(fcalls))

\* the payloads emitted before call c
PayloadsBefore(c) == { EmittedUpTo(c - 1)[k].data : k \in 1 .. Len(EmittedUpTo(c - 1)) }

\* the bit positions in which two payloads of the same length differ
DiffBits(a, b) == { pos \in 0 .. (8 * Len(a) - 1) : Bit(a, pos) # Bit(b, pos) }

\* C23: no (arbitration ID, payload) pair appears twice among the frames one
\* RandomByteFuzzer has emitted, within one call or across calls.
C23_NoPairTwice ==
    \A i, j \in 1 .. Len(Emitted) :
        i # j => << Emitted[i].arbitration_id, Emitted[i].data >>
                   # << Emitted[j].arbitration_id, Emitted[j].data >>

\* the same frame was passed twice, both calls returned frames, and the
\* later call left out a candidate
C23_Witness ==
    \E c1, c2 \in 1 .. Len(fcalls) :
        /\ c1 < c2
        /\ fcalls[c1].msg = fcalls[c2].msg
        /\ fcalls[c1].results # << >>
        /\ fcalls[c2].results # << >>
        /\ Len(fcalls[c2].results) < Len(fcalls[c1].results)

\* the bit positions of the frame of call c whose flipped payload was not
\* emitted before the call
NewBits(c) ==
    { i \in 0 .. (8 * Len(fcalls[c].msg.data) - 1) :
        \A p \in PayloadsBefore(c) :
            ~(Len(p) = Len(fcalls[c].msg.data) /\ DiffBits(p, fcalls[c].msg.data) = {i}) }

\* C24: a call with flip_bits on a frame of n bytes returns one frame for
\* each bit position of NewBits, in ascending order, each differing from the
\* input payload in that bit alone, then at most num_random frames of n
\* bytes; every frame has the ID, addressing mode and time stamp of the
\* input, and there are at most 8 n + num_random frames.
C24_FlipThenRandom ==
    fuzzer.flip_bits =>
        \A c \in 1 .. Len(fcalls) :
            LET msg == fcalls[c].msg
                res == fcalls[c].results
                n   == Len(msg.data)
                new == NewBits(c)
            IN  /\ Len(res) >= Cardinality(new)
                /\ Len(res) - Cardinality(new) <= fuzzer.num_random
                /\ Len(res) <= 8 * n + fuzzer.num_random
                /\ \A i \in new :
                       DiffBits(res[Cardinality({x \in new : x <= i})].data, msg.data) = {i}
                /\ \A k \in 1 .. Len(res) :
                       /\ Len(res[k].data) = n
                       /\ res[k].arbitration_id = msg.arbitration_id
                       /\ res[k].is_extended_id = msg.is_extended_id
                       /\ res[k].timestamp = msg.timestamp

\* a call with flip_bits left out some bit positions, returned frames for the
\* others and a random frame after them
C24_Witness ==
    /\ fuzzer.flip_bits
    /\ \E c \in 1 .. Len(fcalls) :
           /\ NewBits(c) # {}
           /\ Cardinality(NewBits(c)) < 8 * Len(fcalls[c].msg.data)
           /\ Len(fcalls[c].results) > Cardinality(NewBits(c))

\* C30 (payload alone): no payload appears twice among the frames the
\* fuzzer has emitted, whatever their arbitration IDs.
C30_PayloadOnce ==
    \A i, j \in 1 .. Len(Emitted) : i # j => Emitted[i].data # Emitted[j].data

\* C30 (only grows): no step takes a member out of self._seen.
C30_SeenGrows == [][seen \subseteq seen']_vars

\* C30 (repeated frame): with flip_bits, a call on a frame equal to the frame
\* of an earlier call returns no frame that differs from it in one bit.
C30_RepeatNoFlips ==
    fuzzer.flip_bits =>
        \A c1, c2 \in 1 .. Len(fcalls) :
            (c1 < c2 /\ fcalls[c1].msg = fcalls[c2].msg) =>
                \A k \in 1 .. Len(fcalls[c2].results) :
                    Cardinality(DiffBits(fcalls[c2].results[k].data, fcalls[c2].msg.data)) # 1

\* C30: the deduplication state of a RandomByteFuzzer is keyed by payload
\* alone and only grows: a payload emitted for one arbitration ID is not
\* emitted again for another, and a second call on an equal frame returns no
\* bit-flip frames.
C30_DedupByPayload == []C30_PayloadOnce /\ C30_SeenGrows /\ []C30_RepeatNoFlips

\* frames with the same payload and different IDs were passed, then the
\* first frame again, and that last call still returned a frame
C30_Witness ==
    /\ fuzzer.flip_bits
    /\ Len(fcalls) = 3
    /\ fcalls[1].msg.data = fcalls[2].msg.data
    /\ fcalls[1].msg.arbitration_id # fcalls[2].msg.arbitration_id
    /\ fcalls[3].msg = fcalls[1].msg
    /\ fcalls[1].results # << >>
    /\ fcalls[3].results # << >>

\* the elements of the entries array of the document, << >> when it has none
DocEntries ==
    IF ~Is(ldoc, "obj") THEN << >>
    ELSE IF "entries" \notin DOMAIN ldoc.obj THEN << >>
    ELSE IF ~Is(ldoc.obj.entries, "list") THEN << >>
    ELSE ldoc.obj.entries.list

\* the document has an entries array
HasEntries == Is(ldoc, "obj") /\ "entries" \in DOMAIN ldoc.obj /\ Is(ldoc.obj.entries, "list")

\* a source_id or target_id is a number, or a string that writes one
ValidId(obj, key) ==
    /\ key \in DOMAIN obj.obj
    /\ \/ Is(obj.obj[key], "num")
       \/ Is(obj.obj[key], "str") /\ IntBase0(obj.obj[key].str).ok

\* an element of the entries array is an object whose IDs are numbers and
\* whose default bytes, if any, are bytes
ValidObject(obj) ==
    /\ Is(obj, "obj")
    /\ ValidId(obj, "source_id")
    /\ ValidId(obj, "target_id")
    /\ "default_target_bytes" \in DOMAIN obj.obj =>
           \A k \in DOMAIN obj.obj.default_target_bytes.list :
               obj.obj.default_target_bytes.list[k].num \in 0 .. 255

\* the number an ID of a valid object writes
IdOf(raw) == IF Is(raw, "str") THEN IntBase0(raw.str).value ELSE raw.num

\* C25: the load of a document with an entries array does not fail, and the
\* table holds every valid entry of the document that no later valid entry
\* with the same source ID replaces, whatever the other elements are; the
\* load of a document without an entries array fails.
C25_BadEntrySkipped ==
    lout # None =>
        IF ~HasEntries THEN ~lout[1].ok
        ELSE /\ lout[1].ok
             /\ \A i \in DOMAIN DocEntries :
                    (/\ ValidObject(DocEntries[i])
                     /\ \A j \in DOMAIN DocEntries :
                            (j > i /\ ValidObject(DocEntries[j])) =>
                                IdOf(DocEntries[j].obj.source_id)
                                    # IdOf(DocEntries[i].obj.source_id)) =>
                        LET held == lout[1].table[IdOf(DocEntries[i].obj.source_id)]
                        IN  /\ held # None
                            /\ held[1].target_id = IdOf(DocEntries[i].obj.target_id)

\* C26 (timeout 0): a receive with timeout 0 does not wait, and on an empty
\* queue it returns no frame.
C26_ZeroPolls ==
    /\ [](rtimeout = "zero" => rpc # "waiting")
    /\ [][(rpc = "entered" /\ rtimeout = "zero" /\ mqueue = << >> /\ rpc' # rpc) =>
              (rpc' = "idle" /\ rresult'.kind = "none")]_vars

\* C26 (timeout T > 0): a receive with a timeout returns, and it returns no
\* frame only when T has elapsed.
C26_TimedReturns ==
    /\ (rpc = "waiting" /\ rtimeout = "timed") ~> (rpc = "idle")
    /\ [][(rtimeout = "timed" /\ rpc # "idle" /\ rpc' = "idle" /\ rresult'.kind = "none") =>
              rexpired]_vars

\* C26 (no timeout): a receive without timeout that waits on an empty queue
\* returns once a frame is in the queue or the endpoint is closed.
C26_BlockedIsReleased ==
    (rpc = "waiting" /\ rtimeout = "none" /\ (mqueue # << >> \/ ~mopen)) ~> (rpc = "idle")

\* C26: on the in-memory endpoint receive(timeout=0) polls, receive(timeout=T)
\* returns a frame or no frame once T has elapsed, and a receive(timeout=None)
\* that waits is released by a delivered frame or by close().
C26_ReceiveTimeouts == C26_ZeroPolls /\ C26_TimedReturns /\ C26_BlockedIsReleased

\* C27: there is no live worker that the translator does not reference while
\* the stop flag is clear (a worker that outlived stop() sees the flag set
\* until it exits).
C27_OrphanSeesStop ==
    \A w \in Workers : (is_alive(w) /\ thread # Some(w)) => stop_event

\* the record of the table lookup in a frame's history
LookupOf(lg) == lg[CHOOSE i \in DOMAIN lg : lg[i].ev \in {"match", "nomatch"}]

\* the frame was dropped without a word: nothing but its received event
SilentDrop(lg) == \A i \in DOMAIN lg : lg[i].ev \in {"received", "match", "nomatch"}

\* C28: a frame the source returned has one received event, before anything
\* else; then one unknown event when get_entry returned no entry, else one
\* translated event or a silent drop; never both an unknown and a translated
\* event; and a translated frame has at most one sent event.
C28_OneOutcomePerFrame ==
    \A f \in Frames :
        log[f] # << >> =>
            /\ log[f][1].ev = "received"
            /\ Cardinality(At(log[f], "received")) = 1
            /\ Cardinality(At(log[f], "unknown")) + Cardinality(At(log[f], "translated")) <= 1
            /\ At(log[f], "unknown") # {} => LookupOf(log[f]).entry = None
            /\ At(log[f], "translated") # {} =>
                   /\ LookupOf(log[f]).entry # None
                   /\ Cardinality(At(log[f], "sent")) <= 1
            /\ FrameDone(f) =>
                   IF LookupOf(log[f]).entry = None
                   THEN Cardinality(At(log[f], "unknown")) = 1
                   ELSE Cardinality(At(log[f], "translated")) = 1 \/ SilentDrop(log[f])

\* the worker is through with a frame it translated and sent and with a frame
\* it dropped because apply raised
C28_Witness ==
    \E f, g \in Frames :
        /\ FrameDone(f)
        /\ At(log[f], "translated") # {}
        /\ At(log[f], "sent") # {}
        /\ FrameDone(g)
        /\ LookupOf(log[g]).entry # None
        /\ SilentDrop(log[g])

\* C29 (history): after the send of fuzz frame k of a source frame raised,
\* no fuzz frame of that source frame is sent or reported, and the fuzz
\* frames before k were sent and reported.
C29_FuzzSendError ==
    \A f \in Frames :
        \A i \in At(log[f], "send_err") :
            log[f][i].k > 0 =>
                /\ \A j \in (i + 1) .. Len(log[f]) :
                       log[f][j].ev \notin {"send_ok", "send_err", "sent"}
                /\ \A k \in 1 .. (log[f][i].k - 1) :
                       \E a, b \in 1 .. (i - 1) :
                           /\ a < b
                           /\ log[f][a] = Rec("send_ok", k)
                           /\ log[f][b] = Rec("sent", k)

\* C29 (worker): from the send of a fuzz frame the worker goes to the sent
\* event of that frame or back to the loop test.
C29_WorkerGoesOn ==
    \A w \in Workers :
        (wpc[w] = "fuzz_send" /\ wpc'[w] # wpc[w]) => wpc'[w] \in {"n_fsent", "loop"}

\* C29: when the send of the k-th fuzz frame raises, no later fuzz frame of
\* that source frame is sent or reported as sent, the frames already sent
\* keep their sent events, and the worker continues with the next source
\* frame.
C29_FuzzStopsAtError == []C29_FuzzSendError /\ [][C29_WorkerGoesOn]_vars

\* the send of the second of two fuzz frames raised after the first was sent
\* and reported, and the worker has received the next source frame
C29_Witness ==
    \E f, g \in Frames :
        /\ f < g
        /\ FrameDone(f)
        /\ \E i \in At(log[f], "send_err") : log[f][i].k = 2
        /\ At(log[f], "sent") # {}
        /\ log[g] # << >>

=============================================================================
